---- MODULE Spec2Model ----
(***************************************************************************)
(* Model of the Vapi dashboard: the VapiCallMonitor component (listen      *)
(* WebSocket, retry timers, fallback poller, unmount cleanup) and the      *)
(* VapiService REST client, both in src/src/lib/vapi-service.ts.           *)
(*                                                                         *)
(* One action is one JavaScript task: a click handler, the continuation of *)
(* an awaited request, a timer callback or a socket event handler.  React  *)
(* state (useState) is committed between tasks, so a closure created by    *)
(* the render in which the user clicked sees the state of that render for  *)
(* the rest of its life; refs (useRef) are read live.                      *)
(***************************************************************************)
EXTENDS Integers, Sequences, FiniteSets, Bags, TLC

\* ---------------------------------------------------------------- bounds
MaxSockets == 2
MaxIntervals == 2
MaxInflight == 1
MaxCalls == 2
MaxGen == 2
\* The bounds of RetrySpec: one call, a longer chain of automatic retries.
ChainCalls == 1
ChainGen == 4
\* The bounds of ChannelSpec: calls, and automatic retries in a row.
ChannelCalls == 1
PollCalls == 2
MaxRuns == 3
MaxEdits == 2
MaxTyped == 3
ChannelGen == 2
\* The bound of LogSpec: addWsMessage calls observed.
MaxAppends == 4
\* The bound of WebhookSpec: webhook POSTs observed.
MaxPosts == 3

\* ------------------------------------------------------ program constants
MaxRetries == 3
BackoffBaseMs == 1000
PollIntervalMs == 3000
ConnectTimeoutMs == 10000
LogCap == 100
SampleBytes == 512
PrintablePct == 60

\* vapi-webhook-store.ts and the route of /api/vapi-webhook.
MAX_EVENTS == 200
RouteMaxLimit == 200
RouteFallbackLimit == 50
RouteDefaultLimit == 100

\* Entries already in the log when the observation of LogSpec starts.
LogPrefill == LogCap - 2

TerminalStatuses == {"ended", "completed", "failed"}

\* The statuses the platform answers with in this model.
Statuses == {"in-progress", "ended"}

\* "" stands for an absent (undefined) URL: both are falsy in the code.
\* new WebSocket("bad") throws (a URL the constructor rejects).
BadUrl == "bad"

ListenUrls == {"", "wss://a", BadUrl}

ControlUrls == {"", "wss://ctl"}

NoSock == 0

NoTimer == 0

\* currentCall === null
NoCall == [id |-> 0, status |-> "", listenUrl |-> "", controlUrl |-> ""]

CallResponses(callId) ==
  [id : {callId}, status : Statuses, listenUrl : ListenUrls, controlUrl : ControlUrls]

\* Frames the platform sends on the listen channel: JSON text with a type
\* discriminator, free text, binary audio.
Frames ==
  [kind : {"json"}, type : {"status-update"}, call : [status : Statuses]]
    \cup {[kind |-> "json", type |-> "transcript", call |-> [status |-> ""]],
          [kind |-> "text", type |-> "", call |-> [status |-> ""]],
          [kind |-> "binary", type |-> "", call |-> [status |-> ""]]}

\* ------------------------------------------------------------ VapiService
CredentialIds == 1..3

\* The gateway settings sent as credentialData.
CredentialData == 1..4

Digits == {"1", "5"}

\* The characters typed: digits, '+', and formatting the regex removes.
PhoneChars == Digits \cup {"+", "-"}

RECURSIVE Repeat(_, _)
Repeat(c, n) == IF n = 0 THEN <<>> ELSE <<c>> \o Repeat(c, n - 1)

\* What is typed freely, optionally followed by 8 to 10 more digits, so that
\* the 10 and 11 digit forms occur.
TailLengths == {0, 8, 9, 10}

GatewayIps == {"10.0.0.1", "10.0.0.2"}

\* The new IP typed into the edit field; "" is the empty field.
NewIps == {""} \cup GatewayIps

NoEdit == [id |-> 0, name |-> "", ip |-> "", original |-> [id |-> 0, name |-> "", ip |-> ""], held |-> FALSE]

AssistantIds == {"asst-1", "asst-2"}

HttpStatuses == {200, 400, 401, 404, 409, 500}

NoOutcome == [kind |-> "", status |-> 0, json |-> TRUE]

\* fetch either rejects (transport failure) or resolves with a status.
\* A 2xx response may carry a body response.json() cannot parse.
FetchOutcomes ==
  {[kind |-> "network", status |-> 0, json |-> TRUE]}
    \cup [kind : {"http"}, status : HttpStatuses, json : {TRUE}]
    \cup {[kind |-> "http", status |-> 200, json |-> FALSE]}

NoResult == [kind |-> "", error |-> "", status |-> 0]

NotSupported == "Credential updates are not supported by VAPI API. Please delete and recreate the credential instead."

VARIABLES
  mounted,       \* the component is mounted
  loading,       \* useState loading
  currentCall,   \* useState currentCall
  wsConnection,  \* useState wsConnection: url, connected, retryCount
  listenWsRef,   \* useRef listenWsRef: socket id or NoSock
  pollRef,       \* useRef pollRef: interval id or NoTimer
  sockets,       \* WebSocket objects created by connectWebSocket
  intervals,     \* live window.setInterval timers of startPollingCall
  polls,         \* bag of getCall requests in flight
  pendingCall,   \* vapiService.makeCall awaited by makeCall/makeManualCall
  callsMade,     \* number of calls the platform has been asked for
  logged,        \* addWsMessage calls of the latest task: <<type, source>>
  credPc,        \* VapiService.updateCredential: idle, inflight, done
  credReq,       \* its arguments
  credOutcome,   \* what fetch did with the PATCH
  credResult,    \* how the promise updateCredential returned settled
  wsMessages,    \* useState wsMessages: the message log
  logCount,      \* addWsMessage calls so far; the next entry's timestamp
  logStart,      \* logCount when the observation starts
  rxCount,       \* frames received on the listen channel so far
  rxPending,     \* frames whose normalizeWsData promise is not settled
  store,         \* vapi-webhook-store: the events, newest first
  hookCount,     \* events pushed so far; the next event's id
  hookStart,     \* hookCount when the observation starts
  hookBase,      \* hookCount at the latest clearWebhookEvents
  hookNow,       \* the server clock at the latest push
  hookSecret,    \* process.env VAPI_WEBHOOK_SECRET
  hookResp,      \* the latest response of the route
  svcPc,         \* VapiService.makeCall: idle, patch, post, done
  svcSent,       \* the requests it has handed to fetch
  svcOutcomes,   \* what fetch did with each of them
  svcEvents,     \* the 'vapiApiCall' events dispatched since it started
  svcResult,     \* how the promise makeCall returned settled
  abData,        \* an ArrayBuffer handed to normalizeWsData
  abResult,      \* what normalizeWsData returned for it
  platform,      \* the SIP trunk credentials the platform holds
  credentials,   \* the credentials state of the credentials page
  gwPc,          \* updateGatewayIp: idle, delete, create, refresh, done
  gwEdit,        \* the edit it is carrying out
  gwAlert,       \* the alert it ended with
  gwEdits,       \* the edits started so far
  phoneNumber,   \* the target number typed into the call form
  formatted      \* validateE164PhoneNumber applied to it once, then again

monVars == <<mounted, loading, currentCall, wsConnection, listenWsRef, pollRef,
             sockets, intervals, polls, pendingCall, callsMade, logged>>

credVars == <<credPc, credReq, credOutcome, credResult>>

logVars == <<wsMessages, logCount, logStart, rxCount, rxPending>>

hookVars == <<store, hookCount, hookStart, hookBase, hookNow, hookSecret, hookResp>>

svcVars == <<svcPc, svcSent, svcOutcomes, svcEvents, svcResult>>

abVars == <<abData, abResult>>

gwVars == <<platform, credentials, gwPc, gwEdit, gwAlert, gwEdits>>

phoneVars == <<phoneNumber, formatted>>

\* What the call monitor's handlers never touch.
nonMonVars ==
  <<credVars, logVars, hookVars, svcVars, abVars, gwVars, phoneVars>>

\* What the REST client never touches.
nonCredVars ==
  <<monVars, logVars, hookVars, svcVars, abVars, gwVars, phoneVars>>

\* What the message log never touches.
nonLogVars ==
  <<monVars, credVars, hookVars, svcVars, abVars, gwVars, phoneVars>>

\* What the webhook route never touches.
nonHookVars ==
  <<monVars, credVars, logVars, svcVars, abVars, gwVars, phoneVars>>

\* What VapiService.makeCall never touches.
nonSvcVars ==
  <<monVars, credVars, logVars, hookVars, abVars, gwVars, phoneVars>>

\* What the normalisation of an ArrayBuffer never touches.
nonAbVars ==
  <<monVars, credVars, logVars, hookVars, svcVars, gwVars, phoneVars>>

\* What the credentials page never touches.
nonGwVars ==
  <<monVars, credVars, logVars, hookVars, svcVars, abVars, phoneVars>>

\* What validateE164PhoneNumber never touches.
nonPhoneVars ==
  <<monVars, credVars, logVars, hookVars, svcVars, abVars, gwVars>>

vars ==
  <<monVars, credVars, logVars, hookVars, svcVars, abVars, gwVars, phoneVars>>

\* ------------------------------------------------------------- helpers
Min(a, b) == IF a <= b THEN a ELSE b

\* ------------------------------------------------ the webhook store, route
\* Events already stored when the observation of WebhookSpec starts.
HookPrefill == MAX_EVENTS - 2

NoSecret == ""

Secrets == {NoSecret, "k1"}

\* The keys a sender may sign with.
SenderKeys == {"k1", "k2"}

Bodies == {"b1", "b2"}

\* crypto.createHmac('sha256', secret).update(body).digest('hex'): equal
\* digests come from equal keys and bodies.
Hmac(secret, body) == <<"sha256", secret, body>>

NoHeader == <<>>

\* The x-vapi-signature headers a request may carry.
SignatureHeaders ==
  {NoHeader} \cup {Hmac(k, b) : k \in SenderKeys, b \in Bodies}

\* Variant: any signature header is accepted.
verifySignatureAnyHeader(secret, body, signatureHeader) == signatureHeader # NoHeader

verifySignature(secret, body, signatureHeader) ==
  IF secret = NoSecret \/ signatureHeader = NoHeader
  THEN FALSE
  ELSE Hmac(secret, body) = signatureHeader

\* Variant: the push never evicts.
pushWebhookEventNoPop(st, evt) == <<evt>> \o st

\* store.unshift(evt); if (store.length > MAX_EVENTS) store.pop()
pushWebhookEvent(st, evt) ==
  LET s1 == <<evt>> \o st
  IN IF Len(s1) > MAX_EVENTS THEN SubSeq(s1, 1, Len(s1) - 1) ELSE s1

\* seq.slice(0, end): a negative end counts from the end of the array.
SliceTo(seq, end) ==
  LET e == IF end < 0
           THEN (IF Len(seq) + end < 0 THEN 0 ELSE Len(seq) + end)
           ELSE Min(end, Len(seq))
  IN SubSeq(seq, 1, e)

NoParam == [kind |-> "absent"]

\* The limit query parameter: absent or the decimal text of an integer.
LimitParams == {NoParam} \cup [kind : {"int"}, n : {-1, 0, 2, 250}]

\* The since query parameter: absent, text that is no date, or an instant
\* written as ISO UTC text or with a zone offset.
SinceParams(now) ==
  {NoParam, [kind |-> "invalid"]}
    \cup [kind : {"iso", "offset"}, t : {now - 1, now}]

\* new Date(sinceIso).toISOString(): the instant, in canonical UTC text.
ToIso(since) == since.t

\* limitParam ? Math.min(200, Number(limitParam) || 50) : 100
RouteLimit(limitParam) ==
  IF limitParam = NoParam THEN RouteDefaultLimit
  ELSE Min(RouteMaxLimit, IF limitParam.n = 0 THEN RouteFallbackLimit ELSE limitParam.n)

\* listWebhookEvents(limit, sinceIso); sinceIso is a valid date here.
listWebhookEvents(st, limit, since) ==
  LET results == SliceTo(st, Min(limit, Len(st)))
  IN IF since = NoParam
     THEN results
     ELSE LET iso == ToIso(since)
              later(e) == e.receivedAt > iso
          IN SliceTo(SelectSeq(results, later), Min(limit, Len(results)))

NoResponse == [kind |-> "", status |-> 0, id |-> 0, limit |-> 0, since |-> NoParam, events |-> <<>>]

\* seq.slice(-n)
SliceLast(seq, n) ==
  IF Len(seq) <= n THEN seq ELSE SubSeq(seq, Len(seq) - n + 1, Len(seq))

\* Variant: slice(0, n), the first n entries.
KeepFirst(prev, message) == SubSeq(Append(prev, message), 1, IF Len(prev) + 1 <= LogCap THEN Len(prev) + 1 ELSE LogCap)

\* setWsMessages(prev => [...prev, message].slice(-100))
AppendCapped(prev, message) == SliceLast(Append(prev, message), LogCap)

\* Frames on the wire: a text frame or a binary frame, carrying JSON, other
\* text, or audio samples.
WireFrames ==
  {[opcode |-> "text", content |-> "json"], [opcode |-> "text", content |-> "plain"],
   [opcode |-> "binary", content |-> "json"], [opcode |-> "binary", content |-> "audio"]}

\* Variant: binaryType is left at the WebSocket default.
BinaryTypeDefault == "blob"

\* ws.binaryType = 'arraybuffer'
BinaryType == "arraybuffer"

\* event.data of the message event: a string for a text frame, an ArrayBuffer
\* or a Blob for a binary frame, as binaryType says.
Delivered(wire, binaryType) ==
  [shape |-> IF wire.opcode = "text" THEN "string" ELSE binaryType, content |-> wire.content]

\* normalizeWsData awaits I/O (Blob.text, Blob.arrayBuffer) only for a Blob;
\* for every other shape it runs to its return without suspending.
AwaitsIo(data) == data.shape = "blob"

\* normalizeWsData: JSON text parses, audio bytes are below the printable
\* ratio and become a binary download entry.
normalizeWsData(data) ==
  [isJson |-> data.content = "json", isBinary |-> data.content = "audio"]

\* Byte values: NUL, tab, '1', '{', and a byte above ASCII.
ByteValues == {0, 9, 49, 123, 200}

RunLengths == {2, 3, 256, 510}

\* An ArrayBuffer as a sequence of runs of equal bytes.
Runs == [b : ByteValues, n : RunLengths]

RECURSIVE SeqsUpTo(_, _)
SeqsUpTo(S, n) ==
  IF n = 0 THEN {<<>>}
  ELSE LET shorter == SeqsUpTo(S, n - 1)
       IN shorter \cup {Append(q, x) : q \in {r \in shorter : Len(r) = n - 1}, x \in S}

Buffers == SeqsUpTo(Runs, MaxRuns)

RECURSIVE byteLength(_)
byteLength(bytes) ==
  IF bytes = <<>> THEN 0 ELSE Head(bytes).n + byteLength(Tail(bytes))

\* b === 9 || b === 10 || b === 13 || (b >= 32 && b <= 126)
IsPrintable(b) == b = 9 \/ b = 10 \/ b = 13 \/ (b >= 32 /\ b <= 126)

\* The loop over i < limit: the printable bytes among the first limit ones.
RECURSIVE CountPrintable(_, _)
CountPrintable(bytes, limit) ==
  IF bytes = <<>> \/ limit = 0 THEN 0
  ELSE LET taken == Min(Head(bytes).n, limit)
       IN (IF IsPrintable(Head(bytes).b) THEN taken ELSE 0)
            + CountPrintable(Tail(bytes), limit - taken)

PhoneNumbers ==
  {typed \o Repeat("5", n) : typed \in SeqsUpTo(PhoneChars, MaxTyped), n \in TailLengths}

\* phoneNumber.replace(/[^\d+]/g, '')
Cleaned(str) == SelectSeq(str, LAMBDA c : c \in Digits \cup {"+"})

StartsWith(str, c) == str # <<>> /\ Head(str) = c

validateE164PhoneNumber(phoneNumberArg) ==
  LET cleaned == Cleaned(phoneNumberArg)
  IN IF StartsWith(cleaned, "+") THEN cleaned
     ELSE IF Len(cleaned) = 10 THEN <<"+", "1">> \o cleaned
     ELSE IF Len(cleaned) = 11 /\ StartsWith(cleaned, "1") THEN <<"+">> \o cleaned
     ELSE <<"+", "1">> \o cleaned

\* JSON.parse of the decoded text: over these bytes only a run of digits
\* between optional tabs is JSON (a number); NUL, '{' alone and U+FFFD are not.
RECURSIVE DropTabs(_)
DropTabs(bytes) ==
  IF bytes # <<>> /\ Head(bytes).b = 9 THEN DropTabs(Tail(bytes)) ELSE bytes

Reverse(q) == [i \in 1..Len(q) |-> q[Len(q) + 1 - i]]

ParsesAsJson(bytes) ==
  LET core == DropTabs(Reverse(DropTabs(Reverse(bytes))))
  IN core # <<>> /\ \A i \in 1..Len(core) : core[i].b = 49

NoNormalized == [isJson |-> FALSE, isBinary |-> FALSE, text |-> FALSE, size |-> 0]

\* Variant: the ratio is taken over the whole buffer.
normalizeArrayBufferWhole(bytes) ==
  LET length == byteLength(bytes)
      printable == CountPrintable(bytes, length)
      denominator == IF length = 0 THEN 1 ELSE length
  IN IF printable * 100 > PrintablePct * denominator
     THEN [isJson |-> ParsesAsJson(bytes), isBinary |-> FALSE, text |-> TRUE, size |-> 0]
     ELSE [isJson |-> FALSE, isBinary |-> TRUE, text |-> FALSE, size |-> length]

\* normalizeWsData, the ArrayBuffer branch: ratio = printable /
\* Math.min(512, bytes.length || 1); ratio > 0.6 decodes the bytes as text
\* and tries JSON.parse; otherwise the bytes become a binary download.
normalizeArrayBuffer(bytes) ==
  LET length == byteLength(bytes)
      printable == CountPrintable(bytes, Min(SampleBytes, length))
      denominator == Min(SampleBytes, IF length = 0 THEN 1 ELSE length)
  IN IF printable * 100 > PrintablePct * denominator
     THEN [isJson |-> ParsesAsJson(bytes), isBinary |-> FALSE, text |-> TRUE, size |-> 0]
     ELSE [isJson |-> FALSE, isBinary |-> TRUE, text |-> FALSE, size |-> length]

Pow2(n) == IF n = 0 THEN 1 ELSE IF n = 1 THEN 2 ELSE IF n = 2 THEN 4 ELSE 8

\* { ...prev, ...call }
MergeCall(prev, call) ==
  [f \in DOMAIN prev |-> IF f \in DOMAIN call THEN call[f] ELSE prev[f]]

FreeIds(f, max) == (1..max) \ DOMAIN f

FreeId(f, max) == CHOOSE i \in FreeIds(f, max) : \A j \in FreeIds(f, max) : i <= j

\* The values a closure reads from the render that created it.
Snapshot == [retryCount |-> wsConnection.retryCount, hasCall |-> currentCall # NoCall]

\* The mutable world a handler works on.
Heap ==
  [mounted |-> mounted, currentCall |-> currentCall, wsConnection |-> wsConnection,
   listenWsRef |-> listenWsRef, pollRef |-> pollRef, sockets |-> sockets,
   intervals |-> intervals, logged |-> <<>>, ok |-> TRUE]

addWsMessage(h, type, source) == [h EXCEPT !.logged = Append(@, <<type, source>>)]

\* setState of an unmounted component is dropped by React.
setConnected(h, b) ==
  IF h.mounted THEN [h EXCEPT !.wsConnection.connected = b] ELSE h

setCurrentCall(h, c) == IF h.mounted THEN [h EXCEPT !.currentCall = c] ELSE h

\* Variant: close() has no effect.
wsCloseIgnored(s) == s

\* WebSocket.close(): CONNECTING and OPEN go to CLOSING, otherwise no effect.
wsClose(s) ==
  IF s.readyState = "CONNECTING" THEN [s EXCEPT !.readyState = "CLOSING", !.wasOpen = FALSE]
  ELSE IF s.readyState = "OPEN" THEN [s EXCEPT !.readyState = "CLOSING", !.wasOpen = TRUE]
  ELSE s

\* Variant: the timer of the previous poller is left running.
startPollingCallKeepsTimer(h, callId, cap) ==
  LET h1 == addWsMessage(h, "poll", "poll")
      id == FreeId(h1.intervals, MaxIntervals)
  IN IF FreeIds(h1.intervals, MaxIntervals) = {}
     THEN [h1 EXCEPT !.ok = FALSE]
     ELSE
     [h1 EXCEPT !.intervals = (id :> [callId |-> callId, period |-> PollIntervalMs, cap |-> cap]) @@ h1.intervals,
                !.pollRef = id]

stopPollingCall(h) ==
  IF h.pollRef # NoTimer
  THEN addWsMessage([h EXCEPT !.intervals = [i \in DOMAIN h.intervals \ {h.pollRef} |-> h.intervals[i]],
                              !.pollRef = NoTimer],
                    "poll", "poll")
  ELSE h

startPollingCall(h, callId, cap) ==
  LET h1 == addWsMessage(stopPollingCall(h), "poll", "poll")
      id == FreeId(h1.intervals, MaxIntervals)
  IN IF FreeIds(h1.intervals, MaxIntervals) = {}
     THEN [h1 EXCEPT !.ok = FALSE]
     ELSE
     [h1 EXCEPT !.intervals = (id :> [callId |-> callId, period |-> PollIntervalMs, cap |-> cap]) @@ h1.intervals,
                !.pollRef = id]

disconnectWebSockets(h) ==
  LET h1 == IF h.listenWsRef # NoSock
            THEN [h EXCEPT !.sockets[h.listenWsRef] = wsClose(@), !.listenWsRef = NoSock]
            ELSE h
  IN IF h1.mounted
     THEN [h1 EXCEPT !.wsConnection.connected = FALSE, !.wsConnection.retryCount = 0]
     ELSE h1

\* A closed socket nothing refers to any more is garbage.
Collect(h) ==
  LET dead == {i \in DOMAIN h.sockets :
                 /\ h.sockets[i].readyState = "CLOSED"
                 /\ ~h.sockets[i].timeout
                 /\ ~h.sockets[i].retry
                 /\ i # h.listenWsRef}
  IN [h EXCEPT !.sockets = [i \in DOMAIN h.sockets \ dead |-> h.sockets[i]]]

\* gen is history: the number of automatic retries that led to this socket.
\* The socket listenWsRef pointed to loses that reference here.
connectWebSocket(h, wsUrl, cap, gen) ==
  LET h1 == addWsMessage(h, "connection", "listen")
  IN IF wsUrl = BadUrl
     THEN addWsMessage(h1, "error", "listen")
     ELSE LET hc == Collect([h1 EXCEPT !.listenWsRef = NoSock])
              id == FreeId(hc.sockets, MaxSockets)
              ws == [url |-> wsUrl, readyState |-> "CONNECTING", wasOpen |-> FALSE,
                     timeout |-> TRUE, timeoutMs |-> ConnectTimeoutMs,
                     retry |-> FALSE, delay |-> 0,
                     cap |-> cap, gen |-> gen]
              h2 == [hc EXCEPT !.sockets = (id :> ws) @@ hc.sockets, !.listenWsRef = id]
          IN IF FreeIds(hc.sockets, MaxSockets) = {}
             THEN [h1 EXCEPT !.ok = FALSE]
             ELSE IF h2.mounted
             THEN [h2 EXCEPT !.wsConnection.url = wsUrl, !.wsConnection.retryCount = 0]
             ELSE h2

\* Variant: the control URL is connected when there is no listen URL.
connectWebSocketsOpensControl(h, listenUrl, controlUrl, cap) ==
  LET h1 == disconnectWebSockets(h)
      h2 == IF listenUrl # "" THEN connectWebSocket(h1, listenUrl, cap, 0)
            ELSE IF controlUrl # "" THEN connectWebSocket(h1, controlUrl, cap, 0)
            ELSE h1
  IN IF controlUrl # "" THEN addWsMessage(h2, "info", "listen") ELSE h2

connectWebSockets(h, listenUrl, controlUrl, cap) ==
  LET h1 == disconnectWebSockets(h)
      h2 == IF listenUrl # "" THEN connectWebSocket(h1, listenUrl, cap, 0) ELSE h1
  IN IF controlUrl # "" THEN addWsMessage(h2, "info", "listen") ELSE h2

\* Write a heap back to the variables.
Commit(h0) ==
  LET h == Collect(h0)
  IN /\ h0.ok
     /\ currentCall' = h.currentCall
     /\ wsConnection' = h.wsConnection
     /\ listenWsRef' = h.listenWsRef
     /\ pollRef' = h.pollRef
     /\ sockets' = h.sockets
     /\ intervals' = h.intervals
     /\ logged' = h.logged

\* ---------------------------------------------------------------- Init
MonInit ==
  /\ mounted = TRUE
  /\ loading = FALSE
  /\ currentCall = NoCall
  /\ wsConnection = [url |-> "", connected |-> FALSE, retryCount |-> 0]
  /\ listenWsRef = NoSock
  /\ pollRef = NoTimer
  /\ sockets = <<>>
  /\ intervals = <<>>
  /\ polls = EmptyBag
  /\ pendingCall = [kind |-> "", cap |-> [retryCount |-> 0, hasCall |-> FALSE]]
  /\ callsMade = 0
  /\ logged = <<>>

CredIdle ==
  /\ credPc = "idle"
  /\ credReq = [id |-> 0, data |-> 0]
  /\ credOutcome = NoOutcome
  /\ credResult = NoResult

\* The log of a freshly mounted component.
LogEmpty ==
  /\ wsMessages = <<>>
  /\ logCount = 0
  /\ logStart = 0
  /\ rxCount = 0
  /\ rxPending = {}

\* The log of a session in which the poller has logged LogPrefill entries.
LogPrefilled ==
  /\ wsMessages = [k \in 1..LogPrefill |->
                     [type |-> "poll", source |-> "poll", timestamp |-> k, rx |-> 0]]
  /\ logCount = LogPrefill
  /\ logStart = LogPrefill
  /\ rxCount = 0
  /\ rxPending = {}

\* The store of a freshly started server.
HookEmpty ==
  /\ store = <<>>
  /\ hookCount = 0
  /\ hookStart = 0
  /\ hookBase = 0
  /\ hookNow = 0
  /\ hookResp = NoResponse

\* The store of a server that has received HookPrefill events.
HookPrefilled ==
  /\ store = [k \in 1..HookPrefill |->
                [id |-> HookPrefill + 1 - k, receivedAt |-> HookPrefill + 1 - k,
                 verified |-> FALSE]]
  /\ hookCount = HookPrefill
  /\ hookStart = HookPrefill
  /\ hookBase = 0
  /\ hookNow = HookPrefill
  /\ hookResp = NoResponse

HookIdle == HookEmpty /\ hookSecret = NoSecret

SvcIdle ==
  /\ svcPc = "idle"
  /\ svcSent = <<>>
  /\ svcOutcomes = <<>>
  /\ svcEvents = <<>>
  /\ svcResult = NoResult

AbIdle == abData = <<>> /\ abResult = NoNormalized

\* The credentials page after its first fetchCredentials.
GwMounted ==
  /\ platform = {[id |-> 1, name |-> "trunk-a", ip |-> "10.0.0.1"],
                 [id |-> 2, name |-> "trunk-b", ip |-> "10.0.0.1"]}
  /\ credentials = platform
  /\ gwPc = "idle"
  /\ gwEdit = NoEdit
  /\ gwAlert = ""
  /\ gwEdits = 0

\* The parts of the program a specification leaves at rest.
PhoneIdle == phoneNumber = <<>> /\ formatted = <<>>

RestIdle == SvcIdle /\ AbIdle /\ GwMounted /\ PhoneIdle

\* Any target number is in the form.
PhoneInit ==
  /\ MonInit /\ CredIdle /\ LogEmpty /\ HookIdle /\ SvcIdle /\ AbIdle /\ GwMounted
  /\ phoneNumber \in PhoneNumbers
  /\ formatted = <<>>

\* A binary frame of any content is about to be normalised.
BufferInit ==
  /\ MonInit /\ CredIdle /\ LogEmpty /\ HookIdle /\ SvcIdle /\ GwMounted /\ PhoneIdle
  /\ abData \in Buffers
  /\ abResult = NoNormalized

Init == MonInit /\ CredIdle /\ LogEmpty /\ HookIdle /\ RestIdle

LogInit == MonInit /\ CredIdle /\ (LogEmpty \/ LogPrefilled) /\ HookIdle /\ RestIdle

HookInit ==
  /\ MonInit /\ CredIdle /\ LogEmpty
  /\ (HookEmpty \/ HookPrefilled)
  /\ hookSecret \in Secrets
  /\ RestIdle

\* ------------------------------------------------------------- actions
\* makeCall up to the await of vapiService.makeCall.
ClickCall(kind, maxCalls) ==
  /\ mounted /\ ~loading /\ pendingCall.kind = ""
  /\ callsMade < maxCalls
  /\ loading' = TRUE
  /\ pendingCall' = [kind |-> kind, cap |-> Snapshot]
  /\ callsMade' = callsMade + 1
  /\ logged' = <<>>
  /\ UNCHANGED <<mounted, currentCall, wsConnection, listenWsRef, pollRef,
                 sockets, intervals, polls, nonMonVars>>

makeCall(maxCalls) == ClickCall("makeCall", maxCalls)

makeManualCall(maxCalls) == ClickCall("makeManualCall", maxCalls)

\* Variant: the poller is started in the listenUrl branch as well.
CallContinuationAlsoPolls(response) ==
  LET cap == pendingCall.cap
      h1 == setCurrentCall(Heap, response)
      h2 == IF response.listenUrl # ""
            THEN connectWebSockets(h1, response.listenUrl, response.controlUrl, cap)
            ELSE h1
  IN IF response.id # 0 THEN startPollingCall(h2, response.id, cap) ELSE h2

\* The continuation after the await: the call response arrived.
CallContinuation(response) ==
  LET cap == pendingCall.cap
      h1 == setCurrentCall(Heap, response)
      h2 == IF response.listenUrl # ""
            THEN connectWebSockets(h1, response.listenUrl, response.controlUrl, cap)
            ELSE IF response.id # 0 THEN startPollingCall(h1, response.id, cap)
            ELSE h1
  IN h2

makeCallResponseWith(response) ==
  /\ pendingCall.kind # ""
  /\ Commit(CallContinuation(response))
  /\ pendingCall' = [pendingCall EXCEPT !.kind = ""]
  /\ loading' = IF mounted THEN FALSE ELSE loading
  /\ UNCHANGED <<mounted, polls, callsMade, nonMonVars>>

makeCallResponse == \E response \in CallResponses(callsMade) : makeCallResponseWith(response)

\* vapiService.makeCall rejected: catch, alert, finally.
makeCallFailed ==
  /\ pendingCall.kind # ""
  /\ pendingCall' = [pendingCall EXCEPT !.kind = ""]
  /\ loading' = IF mounted THEN FALSE ELSE loading
  /\ logged' = <<>>
  /\ UNCHANGED <<mounted, currentCall, wsConnection, listenWsRef, pollRef,
                 sockets, intervals, polls, callsMade, nonMonVars>>

\* The interval callback up to the await of vapiService.getCall.
pollTick(i) ==
  /\ i \in DOMAIN intervals
  /\ BagCardinality(polls) < MaxInflight
  /\ polls' = polls (+) SetToBag({intervals[i]})
  /\ logged' = <<>>
  /\ UNCHANGED <<mounted, loading, currentCall, wsConnection, listenWsRef, pollRef,
                 sockets, intervals, pendingCall, callsMade, nonMonVars>>

PollContinuation(p, updated) ==
  LET h1 == setCurrentCall(addWsMessage(Heap, "poll", "poll"), updated)
      h2 == IF updated.listenUrl # "" \/ updated.controlUrl # ""
            THEN stopPollingCall(
                   connectWebSockets(addWsMessage(h1, "connection", "poll"),
                                     updated.listenUrl, updated.controlUrl, p.cap))
            ELSE h1
      h3 == IF updated.status \in TerminalStatuses
            THEN stopPollingCall(addWsMessage(h2, "poll", "poll"))
            ELSE h2
  IN h3

pollResponseWith(p, updated) ==
  /\ BagIn(p, polls)
  /\ Commit(PollContinuation(p, updated))
  /\ polls' = polls (-) SetToBag({p})
  /\ UNCHANGED <<mounted, loading, pendingCall, callsMade, nonMonVars>>

pollResponse(p) == \E updated \in CallResponses(p.callId) : pollResponseWith(p, updated)

\* Variant: a failed poll stops the poller.
pollErrorStopsPolling(p) ==
  /\ BagIn(p, polls)
  /\ polls' = polls (-) SetToBag({p})
  /\ Commit(stopPollingCall(addWsMessage(Heap, "error", "poll")))
  /\ UNCHANGED <<mounted, loading, pendingCall, callsMade, nonMonVars>>

\* vapiService.getCall rejected: the catch of the interval callback.
pollError(p) ==
  /\ BagIn(p, polls)
  /\ polls' = polls (-) SetToBag({p})
  /\ Commit(addWsMessage(Heap, "error", "poll"))
  /\ UNCHANGED <<mounted, loading, pendingCall, callsMade, nonMonVars>>

\* Variant: ws.onopen appends nothing to the log.
wsOnOpenSilent(s) ==
  /\ s \in DOMAIN sockets
  /\ sockets[s].readyState = "CONNECTING"
  /\ Commit(setConnected([Heap EXCEPT !.sockets[s].readyState = "OPEN",
                                      !.sockets[s].timeout = FALSE], TRUE))
  /\ UNCHANGED <<mounted, loading, polls, pendingCall, callsMade, nonMonVars>>

\* ws.onopen
wsOnOpen(s) ==
  /\ s \in DOMAIN sockets
  /\ sockets[s].readyState = "CONNECTING"
  /\ LET h1 == [Heap EXCEPT !.sockets[s].readyState = "OPEN", !.sockets[s].timeout = FALSE]
         h2 == addWsMessage(setConnected(h1, TRUE), "connection", "listen")
     IN Commit(h2)
  /\ UNCHANGED <<mounted, loading, polls, pendingCall, callsMade, nonMonVars>>

\* ws.onmessage with the normalisation of the payload.
OnMessage(h, s, frame) ==
  IF frame.kind = "json"
  THEN LET h1 == addWsMessage(h, "message", "listen")
       IN IF frame.type = "status-update" /\ h.sockets[s].cap.hasCall /\ h1.mounted
          THEN [h1 EXCEPT !.currentCall = IF @ # NoCall THEN MergeCall(@, frame.call) ELSE NoCall]
          ELSE h1
  ELSE addWsMessage(h, "raw", "listen")

wsOnMessageWith(s, frame) ==
  /\ s \in DOMAIN sockets
  /\ sockets[s].readyState = "OPEN"
  /\ Commit(OnMessage(Heap, s, frame))
  /\ UNCHANGED <<mounted, loading, polls, pendingCall, callsMade, nonMonVars>>

wsOnMessage(s) == \E frame \in Frames : wsOnMessageWith(s, frame)

\* ws.onerror
OnError(h, s) ==
  setConnected(addWsMessage([h EXCEPT !.sockets[s].timeout = FALSE], "error", "listen"), FALSE)

\* Variant: ws.onclose schedules the reconnect without looking at wasClean.
OnCloseIgnoresClean(h, s, wasClean) ==
  LET h1 == setConnected([h EXCEPT !.sockets[s].timeout = FALSE], FALSE)
      h2 == addWsMessage(h1, "connection", "listen")
      cap == h.sockets[s].cap
  IN IF cap.retryCount < MaxRetries
     THEN [h2 EXCEPT !.sockets[s].retry = TRUE,
                     !.sockets[s].delay = Pow2(cap.retryCount) * BackoffBaseMs]
     ELSE h2

\* ws.onclose
OnClose(h, s, wasClean) ==
  LET h1 == setConnected([h EXCEPT !.sockets[s].timeout = FALSE], FALSE)
      h2 == addWsMessage(h1, "connection", "listen")
      cap == h.sockets[s].cap
  IN IF ~wasClean /\ cap.retryCount < MaxRetries
     THEN [h2 EXCEPT !.sockets[s].retry = TRUE,
                     !.sockets[s].delay = Pow2(cap.retryCount) * BackoffBaseMs]
     ELSE h2

\* The connection closes after a completed closing handshake.
wsCloseClean(s) ==
  /\ s \in DOMAIN sockets
  /\ \/ sockets[s].readyState = "OPEN"
     \/ sockets[s].readyState = "CLOSING" /\ sockets[s].wasOpen
  /\ Commit(OnClose([Heap EXCEPT !.sockets[s].readyState = "CLOSED"], s, TRUE))
  /\ UNCHANGED <<mounted, loading, polls, pendingCall, callsMade, nonMonVars>>

\* The connection fails or drops: error event (always when the handshake
\* never completed), then close event with wasClean false.
wsCloseUnexpected(s) ==
  /\ s \in DOMAIN sockets
  /\ sockets[s].readyState \in {"CONNECTING", "OPEN", "CLOSING"}
  /\ \E withError \in BOOLEAN :
       /\ (sockets[s].readyState = "CONNECTING" => withError)
       /\ (sockets[s].readyState = "CLOSING" /\ ~sockets[s].wasOpen => withError)
       /\ LET h0 == [Heap EXCEPT !.sockets[s].readyState = "CLOSED"]
              h1 == IF withError THEN OnError(h0, s) ELSE h0
          IN Commit(OnClose(h1, s, FALSE))
  /\ UNCHANGED <<mounted, loading, polls, pendingCall, callsMade, nonMonVars>>

\* Variant: the timeout ends the call session.
connectionTimeoutEndsCall(s) ==
  /\ s \in DOMAIN sockets
  /\ sockets[s].timeout
  /\ LET h0 == [Heap EXCEPT !.sockets[s].timeout = FALSE]
         h1 == IF sockets[s].readyState = "CONNECTING"
               THEN setCurrentCall(
                      setConnected(addWsMessage([h0 EXCEPT !.sockets[s] = wsClose(@)],
                                                "error", "listen"), FALSE), NoCall)
               ELSE h0
     IN Commit(h1)
  /\ UNCHANGED <<mounted, loading, polls, pendingCall, callsMade, nonMonVars>>

\* The connectionTimeout callback.
connectionTimeout(s) ==
  /\ s \in DOMAIN sockets
  /\ sockets[s].timeout
  /\ LET h0 == [Heap EXCEPT !.sockets[s].timeout = FALSE]
         h1 == IF sockets[s].readyState = "CONNECTING"
               THEN setConnected(addWsMessage([h0 EXCEPT !.sockets[s] = wsClose(@)],
                                              "error", "listen"), FALSE)
               ELSE h0
     IN Commit(h1)
  /\ UNCHANGED <<mounted, loading, polls, pendingCall, callsMade, nonMonVars>>

\* The retry callback scheduled by ws.onclose.
retryTimer(s, maxGen) ==
  /\ s \in DOMAIN sockets
  /\ sockets[s].retry
  /\ sockets[s].gen < maxGen
  /\ LET h0 == addWsMessage([Heap EXCEPT !.sockets[s].retry = FALSE], "connection", "listen")
         h1 == IF h0.mounted THEN [h0 EXCEPT !.wsConnection.retryCount = @ + 1] ELSE h0
         h2 == connectWebSocket(h1, sockets[s].url, sockets[s].cap, sockets[s].gen + 1)
     IN Commit(h2)
  /\ UNCHANGED <<mounted, loading, polls, pendingCall, callsMade, nonMonVars>>

\* The cleanup of the unmount effect.
unmount ==
  /\ mounted
  /\ mounted' = FALSE
  /\ Commit(stopPollingCall(disconnectWebSockets(Heap)))
  /\ UNCHANGED <<loading, polls, pendingCall, callsMade, nonMonVars>>

\* Variant: the success event is dispatched before the body is parsed.
requestTryNotifiesEarly(outcome) ==
  IF outcome.kind = "network"
  THEN [events |-> <<>>, threw |-> TRUE,
        result |-> [kind |-> "error", error |-> "TypeError: Failed to fetch", status |-> 0]]
  ELSE IF outcome.status \notin 200..299
  THEN [events |-> <<>>, threw |-> TRUE,
        result |-> [kind |-> "error", error |-> "HTTP", status |-> outcome.status]]
  ELSE IF ~outcome.json
  THEN [events |-> <<[success |-> TRUE, status |-> outcome.status]>>, threw |-> TRUE,
        result |-> [kind |-> "error", error |-> "SyntaxError", status |-> outcome.status]]
  ELSE [events |-> <<[success |-> TRUE, status |-> outcome.status]>>, threw |-> FALSE,
        result |-> [kind |-> "data", error |-> "", status |-> outcome.status]]

\* The try block of request(): the events it dispatches, whether it throws,
\* and the error thrown or the data returned.  fetch rejects; a non-2xx
\* response throws 'HTTP status'; response.json() throws on a body that is
\* not JSON; otherwise the success event is dispatched and data returned.
requestTry(outcome) ==
  IF outcome.kind = "network"
  THEN [events |-> <<>>, threw |-> TRUE,
        result |-> [kind |-> "error", error |-> "TypeError: Failed to fetch", status |-> 0]]
  ELSE IF outcome.status \notin 200..299
  THEN [events |-> <<>>, threw |-> TRUE,
        result |-> [kind |-> "error", error |-> "HTTP", status |-> outcome.status]]
  ELSE IF ~outcome.json
  THEN [events |-> <<>>, threw |-> TRUE,
        result |-> [kind |-> "error", error |-> "SyntaxError", status |-> outcome.status]]
  ELSE [events |-> <<[success |-> TRUE, status |-> outcome.status]>>, threw |-> FALSE,
        result |-> [kind |-> "data", error |-> "", status |-> outcome.status]]

\* request() with its catch block: the error event, then the rethrow.
requestRun(outcome) ==
  LET t == requestTry(outcome)
  IN IF t.threw
     THEN [events |-> Append(t.events, [success |-> FALSE, status |-> t.result.status]),
           result |-> t.result]
     ELSE [events |-> t.events, result |-> t.result]

\* request(): what the promise it returns settles to.
request(outcome) == requestRun(outcome).result

\* updateCredential up to its return.  JSON.stringify(credentialData) runs
\* inside the try block and throws for data it cannot serialise; the promise
\* of request() is returned without being awaited.
updateCredential(credentialId, credentialData, serialisable) ==
  /\ credPc \in {"idle", "done"}
  /\ credReq' = [id |-> credentialId, data |-> credentialData]
  /\ credOutcome' = NoOutcome
  /\ IF serialisable
     THEN credPc' = "inflight" /\ credResult' = NoResult
     ELSE credPc' = "done"
          /\ credResult' = [kind |-> "error", error |-> NotSupported, status |-> 0]
  /\ UNCHANGED nonCredVars

\* The PATCH settles and with it the promise the caller holds.
updateCredentialSettles(outcome) ==
  /\ credPc = "inflight"
  /\ credPc' = "done"
  /\ credOutcome' = outcome
  /\ credResult' = request(outcome)
  /\ UNCHANGED <<credReq, nonCredVars>>

\* -------------------------------------------------- VapiService.makeCall
PatchAssistant(assistantId) == [method |-> "PATCH", endpoint |-> <<"/assistant", assistantId>>]

PostCall == [method |-> "POST", endpoint |-> <<"/call">>]

\* makeCall up to the await of enableAssistantMonitoring: the PATCH is sent.
serviceMakeCall(assistantId) ==
  /\ svcPc \in {"idle", "done"}
  /\ svcPc' = "patch"
  /\ svcSent' = <<PatchAssistant(assistantId)>>
  /\ svcOutcomes' = <<>>
  /\ svcEvents' = <<>>
  /\ svcResult' = NoResult
  /\ UNCHANGED nonSvcVars

\* Variant: a failed PATCH ends makeCall with its error.
servicePatchFailureAborts(outcome) ==
  /\ svcPc = "patch"
  /\ svcOutcomes' = Append(svcOutcomes, outcome)
  /\ svcEvents' = svcEvents \o requestRun(outcome).events
  /\ IF request(outcome).kind = "error"
     THEN svcPc' = "done" /\ svcSent' = svcSent /\ svcResult' = request(outcome)
     ELSE svcPc' = "post" /\ svcSent' = Append(svcSent, PostCall) /\ svcResult' = svcResult
  /\ UNCHANGED nonSvcVars

\* The PATCH settles; its error is caught and logged; the POST is sent.
servicePatchSettles(outcome) ==
  /\ svcPc = "patch"
  /\ svcPc' = "post"
  /\ svcOutcomes' = Append(svcOutcomes, outcome)
  /\ svcEvents' = svcEvents \o requestRun(outcome).events
  /\ svcSent' = Append(svcSent, PostCall)
  /\ UNCHANGED <<svcResult, nonSvcVars>>

\* The POST settles and with it the promise makeCall returned.
servicePostSettles(outcome) ==
  /\ svcPc = "post"
  /\ svcPc' = "done"
  /\ svcOutcomes' = Append(svcOutcomes, outcome)
  /\ svcEvents' = svcEvents \o requestRun(outcome).events
  /\ svcResult' = request(outcome)
  /\ UNCHANGED <<svcSent, nonSvcVars>>

\* -------------------------------------------------- the credentials page
PlatformIds == {c.id : c \in platform}

\* What the platform can answer to a request, and whether it carried the
\* request out: a 2xx answer means it did, another status that it did not;
\* a network failure leaves both possible.  ok says whether 2xx is possible.
Served(outcome, applied, ok) ==
  /\ outcome.kind = "http" => (applied <=> outcome.status \in 200..299)
  /\ applied => ok
  /\ (outcome.kind = "http" /\ outcome.status = 404) => ~ok

\* updateGatewayIp up to its first await: DELETE /credential/{id} is sent.
updateGatewayIp(credentialId, newIp) ==
  /\ gwPc \in {"idle", "done"}
  /\ gwEdits < MaxEdits
  /\ gwEdits' = gwEdits + 1
  /\ gwAlert' = ""
  /\ IF newIp = "" \/ credentialId \notin {c.id : c \in credentials}
     THEN gwPc' = "done" /\ gwEdit' = NoEdit
     ELSE LET credential == CHOOSE c \in credentials : c.id = credentialId
          IN /\ gwPc' = "delete"
             /\ gwEdit' = [id |-> credentialId, name |-> credential.name, ip |-> newIp,
                           original |-> credential, held |-> credential \in platform]
  /\ UNCHANGED <<platform, credentials, nonGwVars>>

\* deleteCredential settles: a rejection goes to the catch, otherwise
\* POST /credential is sent.
deleteCredentialSettles(outcome, applied) ==
  /\ gwPc = "delete"
  /\ Served(outcome, applied, gwEdit.id \in PlatformIds)
  /\ platform' = IF applied THEN {c \in platform : c.id # gwEdit.id} ELSE platform
  /\ IF request(outcome).kind = "error"
     THEN gwPc' = "done" /\ gwAlert' = "Failed to update credential. VAPI may not support credential updates."
     ELSE gwPc' = "create" /\ gwAlert' = gwAlert
  /\ UNCHANGED <<credentials, gwEdit, gwEdits, nonGwVars>>

\* createCredential settles: a rejection goes to the catch, otherwise the
\* list is fetched again.
createCredentialSettles(outcome, applied) ==
  /\ gwPc = "create"
  /\ Served(outcome, applied, TRUE)
  /\ platform' =
       IF applied
       THEN platform \cup {[id |-> 10 * gwEdits + gwEdit.id, name |-> gwEdit.name, ip |-> gwEdit.ip]}
       ELSE platform
  /\ IF request(outcome).kind = "error"
     THEN gwPc' = "done" /\ gwAlert' = "Failed to update credential. VAPI may not support credential updates."
     ELSE gwPc' = "refresh" /\ gwAlert' = gwAlert
  /\ UNCHANGED <<credentials, gwEdit, gwEdits, nonGwVars>>

\* fetchCredentials settles: it catches its own failure; then the success
\* alert.
fetchCredentialsSettles(outcome) ==
  /\ gwPc = "refresh"
  /\ credentials' = IF request(outcome).kind = "data" THEN platform ELSE credentials
  /\ gwPc' = "done"
  /\ gwAlert' = "Credential updated successfully (recreated with new IP)"
  /\ UNCHANGED <<platform, gwEdit, gwEdits, nonGwVars>>

\* ------------------------------------------------ validateE164PhoneNumber
\* makeCall formats the target number.
formatTargetNumber ==
  /\ formatted = <<>>
  /\ formatted' = <<validateE164PhoneNumber(phoneNumber)>>
  /\ UNCHANGED <<phoneNumber, nonPhoneVars>>

\* The formatted number is submitted again.
formatAgain ==
  /\ Len(formatted) = 1
  /\ formatted' = Append(formatted, validateE164PhoneNumber(formatted[1]))
  /\ UNCHANGED <<phoneNumber, nonPhoneVars>>

\* ------------------------------------------- normalizeWsData(ArrayBuffer)
normalizeBuffer ==
  /\ abResult = NoNormalized
  /\ abResult' = normalizeArrayBuffer(abData)
  /\ UNCHANGED <<abData, nonAbVars>>

\* ------------------------------------------------------ the message log
\* A frame's normalisation that awaits no I/O settles in microtasks of the
\* task that received the frame, before any other task runs.
MicrotaskPending == \E f \in rxPending : ~AwaitsIo(f.data)

\* Any addWsMessage call that is not made for a received frame.
logAppend(type, source) ==
  /\ ~MicrotaskPending
  /\ logCount < logStart + MaxAppends
  /\ wsMessages' = AppendCapped(wsMessages,
                       [type |-> type, source |-> source, timestamp |-> logCount + 1, rx |-> 0])
  /\ logCount' = logCount + 1
  /\ UNCHANGED <<logStart, rxCount, rxPending, nonLogVars>>

\* ws.onmessage up to the await of normalizeWsData(event.data).
wsFrame(wire) ==
  /\ ~MicrotaskPending
  /\ logCount + Cardinality(rxPending) < logStart + MaxAppends
  /\ rxCount' = rxCount + 1
  /\ rxPending' = rxPending \cup {[rx |-> rxCount + 1, data |-> Delivered(wire, BinaryType)]}
  /\ UNCHANGED <<wsMessages, logCount, logStart, nonLogVars>>

\* ws.onmessage after the await: the entry for the frame is appended.
normalizeSettles(f) ==
  /\ f \in rxPending
  /\ AwaitsIo(f.data) => ~MicrotaskPending
  /\ LET n == normalizeWsData(f.data)
         type == IF n.isJson THEN "message" ELSE "raw"
     IN wsMessages' = AppendCapped(wsMessages,
                         [type |-> type, source |-> "listen", timestamp |-> logCount + 1,
                          rx |-> f.rx])
  /\ logCount' = logCount + 1
  /\ rxPending' = rxPending \ {f}
  /\ UNCHANGED <<logStart, rxCount, nonLogVars>>

\* ------------------------------------------------------ the webhook route
\* POST /api/vapi-webhook with a readable body; dt is the time since the
\* previous event.
POST(body, signatureHeader, dt) ==
  /\ hookCount < hookStart + MaxPosts
  /\ LET verified == verifySignature(hookSecret, body, signatureHeader)
         evt == [id |-> hookCount + 1, receivedAt |-> hookNow + dt, verified |-> verified]
     IN /\ store' = pushWebhookEvent(store, evt)
        /\ hookResp' = [NoResponse EXCEPT !.kind = "post", !.status = 200, !.id = evt.id]
  /\ hookNow' = hookNow + dt
  /\ hookCount' = hookCount + 1
  /\ UNCHANGED <<hookStart, hookBase, hookSecret, nonHookVars>>

\* POST whose body cannot be read: request.text() rejects.
postUnreadable ==
  /\ hookResp' = [NoResponse EXCEPT !.kind = "post", !.status = 400]
  /\ UNCHANGED <<store, hookCount, hookStart, hookBase, hookNow, hookSecret, nonHookVars>>

\* GET /api/vapi-webhook?limit=..&since=..
GET(limitParam, sinceParam) ==
  /\ LET limit == RouteLimit(limitParam)
     IN hookResp' =
          IF sinceParam # NoParam /\ sinceParam.kind = "invalid"
          THEN [NoResponse EXCEPT !.kind = "list", !.status = 500]
          ELSE [NoResponse EXCEPT !.kind = "list", !.status = 200, !.limit = limit,
                                  !.since = sinceParam,
                                  !.events = listWebhookEvents(store, limit, sinceParam)]
  /\ UNCHANGED <<store, hookCount, hookStart, hookBase, hookNow, hookSecret, nonHookVars>>

clearWebhookEvents ==
  /\ store # <<>>
  /\ store' = <<>>
  /\ hookBase' = hookCount
  /\ UNCHANGED <<hookCount, hookStart, hookNow, hookSecret, hookResp, nonHookVars>>

\* ------------------------------------------------------- specifications
\* The call monitor: two calls, short retry chains.
Next ==
  \/ makeCall(MaxCalls)
  \/ makeManualCall(MaxCalls)
  \/ makeCallResponse
  \/ makeCallFailed
  \/ \E i \in 1..MaxIntervals : pollTick(i)
  \/ \E p \in BagToSet(polls) : pollResponse(p)
  \/ \E p \in BagToSet(polls) : pollError(p)
  \/ \E s \in 1..MaxSockets : wsOnOpen(s)
  \/ \E s \in 1..MaxSockets : wsOnMessage(s)
  \/ \E s \in 1..MaxSockets : wsCloseClean(s)
  \/ \E s \in 1..MaxSockets : wsCloseUnexpected(s)
  \/ \E s \in 1..MaxSockets : connectionTimeout(s)
  \/ \E s \in 1..MaxSockets : retryTimer(s, MaxGen)
  \/ unmount

Spec == Init /\ [][Next]_vars

\* The call monitor: one call, long retry chains.
RetryNext ==
  \/ makeCall(ChainCalls)
  \/ makeManualCall(ChainCalls)
  \/ makeCallResponse
  \/ makeCallFailed
  \/ \E i \in 1..MaxIntervals : pollTick(i)
  \/ \E p \in BagToSet(polls) : pollResponse(p)
  \/ \E p \in BagToSet(polls) : pollError(p)
  \/ \E s \in 1..MaxSockets : wsOnOpen(s)
  \/ \E s \in 1..MaxSockets : wsOnMessage(s)
  \/ \E s \in 1..MaxSockets : wsCloseClean(s)
  \/ \E s \in 1..MaxSockets : wsCloseUnexpected(s)
  \/ \E s \in 1..MaxSockets : connectionTimeout(s)
  \/ \E s \in 1..MaxSockets : retryTimer(s, ChainGen)
  \/ unmount

RetrySpec == Init /\ [][RetryNext]_vars

\* The listen channel by itself: every handler of the call monitor but the
\* ticks of the poll timer.
ChannelNext ==
  \/ makeCall(ChannelCalls)
  \/ makeManualCall(ChannelCalls)
  \/ makeCallResponse
  \/ makeCallFailed
  \/ \E s \in 1..MaxSockets : wsOnOpen(s)
  \/ \E s \in 1..MaxSockets : wsOnMessage(s)
  \/ \E s \in 1..MaxSockets : wsCloseClean(s)
  \/ \E s \in 1..MaxSockets : wsCloseUnexpected(s)
  \/ \E s \in 1..MaxSockets : connectionTimeout(s)
  \/ \E s \in 1..MaxSockets : retryTimer(s, ChannelGen)
  \/ unmount

ChannelSpec == Init /\ [][ChannelNext]_vars

\* The poller by itself: calls, poll ticks and their outcomes, unmount.  The
\* sockets the handlers open and close deliver no event here.
PollNext ==
  \/ makeCall(PollCalls)
  \/ makeManualCall(PollCalls)
  \/ makeCallResponse
  \/ makeCallFailed
  \/ \E i \in 1..MaxIntervals : pollTick(i)
  \/ \E p \in BagToSet(polls) : pollResponse(p)
  \/ \E p \in BagToSet(polls) : pollError(p)
  \/ unmount

PollSpec == Init /\ [][PollNext]_vars

\* The REST client.
CredNext ==
  \/ \E id \in CredentialIds, data \in CredentialData, ser \in BOOLEAN :
       updateCredential(id, data, ser)
  \/ \E outcome \in FetchOutcomes : updateCredentialSettles(outcome)

CredSpec == Init /\ [][CredNext]_vars

\* The message log and the frames of the listen channel.
LogNext ==
  \/ \E type \in {"connection", "error"} : logAppend(type, "listen")
  \/ \E w \in WireFrames : wsFrame(w)
  \/ \E f \in rxPending : normalizeSettles(f)

LogSpec == LogInit /\ [][LogNext]_vars

\* VapiService.makeCall and the requests it makes.
ServiceNext ==
  \/ \E assistantId \in AssistantIds : serviceMakeCall(assistantId)
  \/ \E outcome \in FetchOutcomes : servicePatchSettles(outcome)
  \/ \E outcome \in FetchOutcomes : servicePostSettles(outcome)

ServiceSpec == Init /\ [][ServiceNext]_vars

\* The gateway IP edit of the credentials page.
GatewayNext ==
  \/ \E credentialId \in CredentialIds, newIp \in NewIps : updateGatewayIp(credentialId, newIp)
  \/ \E outcome \in FetchOutcomes, applied \in BOOLEAN : deleteCredentialSettles(outcome, applied)
  \/ \E outcome \in FetchOutcomes, applied \in BOOLEAN : createCredentialSettles(outcome, applied)
  \/ \E outcome \in FetchOutcomes : fetchCredentialsSettles(outcome)

GatewaySpec == Init /\ [][GatewayNext]_vars

\* The formatting of the target number.
PhoneNext ==
  \/ formatTargetNumber
  \/ formatAgain

PhoneSpec == PhoneInit /\ [][PhoneNext]_vars

\* normalizeWsData on ArrayBuffers.
BufferNext == normalizeBuffer

BufferSpec == BufferInit /\ [][BufferNext]_vars

\* The webhook store behind its route.
WebhookNext ==
  \/ \E body \in Bodies, sig \in SignatureHeaders, dt \in {0, 1} : POST(body, sig, dt)
  \/ postUnreadable
  \/ \E limitParam \in LimitParams, sinceParam \in SinceParams(hookNow) :
       GET(limitParam, sinceParam)
  \/ clearWebhookEvents

WebhookSpec == HookInit /\ [][WebhookNext]_vars

\* ------------------------------------------------------------- claims
Live(ws) == ws.readyState \in {"CONNECTING", "OPEN"}

LiveSockets == {i \in DOMAIN sockets : Live(sockets[i])}

ChannelActive == LiveSockets # {}

PollerActive == DOMAIN intervals # {}

\* connectWebSocket was entered in the latest task.
ConnectAttempted == \E k \in 1..Len(logged) : logged[k] = <<"connection", "listen">>

\* C1: in every reachable state at most one of {a listen socket connecting or
\* open, a poll timer active} holds.
C1_ChannelPollerExclusive == ~(ChannelActive /\ PollerActive)

\* C2: the retry counter never exceeds 3, and after three automatic reconnect
\* attempts that each ended in an unexpected close no fourth automatic
\* connectWebSocket call is made for the channel.
C2_RetryBounded ==
  /\ wsConnection.retryCount <= MaxRetries
  /\ \A i \in DOMAIN sockets : sockets[i].gen <= MaxRetries

\* C3: the task that receives a call response closes every listen socket that
\* was connecting or open and clears every poll timer of an earlier call,
\* in the listenUrl branch and in the id-only branch.
C3_NewCallCancelsPrevious ==
  [][\A response \in CallResponses(callsMade) :
       makeCallResponseWith(response) =>
         /\ \A i \in DOMAIN sockets : Live(sockets[i]) => ~Live(sockets'[i])
         /\ \A i \in DOMAIN intervals' : intervals'[i].callId = response.id]_vars

\* C4: once the view is unmounted no listen socket is connecting or open and
\* no poll timer is active, in any later state.
C4_UnmountReleases == ~mounted => (LiveSockets = {} /\ DOMAIN intervals = {})

\* C5: when the platform rejects the PATCH (non-2xx or transport failure),
\* updateCredential fails with the 'not supported' error, not the HTTP error.
C5_PatchRejectionNotSupported ==
  (credPc = "done" /\ credOutcome # NoOutcome
     /\ (credOutcome.kind = "network" \/ credOutcome.status \notin 200..299))
    => (credResult.kind = "error" /\ credResult.error = NotSupported)

\* C6: at any instant at most one listen WebSocket is CONNECTING or OPEN.
C6_AtMostOneLiveSocket == Cardinality(LiveSockets) <= 1

\* C7: the delay of a scheduled automatic reconnect is 2^n seconds, n being
\* the number of automatic retries already made for the channel: 1 s, 2 s, 4 s.
C7_BackoffDoubles ==
  \A i \in DOMAIN sockets :
    sockets[i].retry => sockets[i].delay = Pow2(sockets[i].gen) * BackoffBaseMs

\* C8: a status-update frame that arrives while a call session is current
\* merges the fields of its nested call object into currentCall.
C8_StatusUpdateMerged ==
  [][\A s \in DOMAIN sockets : \A frame \in Frames :
       (/\ wsOnMessageWith(s, frame)
        /\ frame.kind = "json" /\ frame.type = "status-update"
        /\ mounted /\ currentCall # NoCall)
         => currentCall' = MergeCall(currentCall, frame.call)]_vars

\* C9: when the poller stops on a poll response that contains a monitor
\* endpoint (listenUrl or controlUrl), a listen connection attempt is started
\* in the same task.
C9_DiscoverySwitchesToChannel ==
  [][\A p \in BagToSet(polls) : \A updated \in CallResponses(p.callId) :
       (/\ pollResponseWith(p, updated)
        /\ (updated.listenUrl # "" \/ updated.controlUrl # "")
        /\ pollRef # NoTimer /\ pollRef' = NoTimer)
         => ConnectAttempted']_vars

\* C10: a poll response with status ended, completed or failed clears the
\* poll timer in that task and opens no channel.
C10_TerminalStopsWithoutChannel ==
  [][\A p \in BagToSet(polls) : \A updated \in CallResponses(p.callId) :
       (pollResponseWith(p, updated) /\ updated.status \in TerminalStatuses)
         => /\ pollRef' = NoTimer /\ DOMAIN intervals' = {}
            /\ \A i \in DOMAIN sockets' : Live(sockets'[i]) => i \in LiveSockets]_vars

\* ------------------------------------------------ claims on the channel log
ErrorEntries(log) == Cardinality({k \in 1..Len(log) : log[k][1] = "error"})

HasChannelEntry(log) == \E k \in 1..Len(log) : log[k][1] \in {"connection", "error"}

\* The timeout callback finds the socket still CONNECTING.
TimeoutFires(s) == connectionTimeout(s) /\ sockets[s].readyState = "CONNECTING"

\* close() was called before the handshake completed.
ClosedWhileConnecting(s) == sockets[s].readyState = "CLOSING" /\ ~sockets[s].wasOpen

\* Only the timeout callback closes a socket and leaves listenWsRef on it:
\* disconnectWebSockets clears the reference.
TimedOutCurrent(s) == listenWsRef = s /\ ClosedWhileConnecting(s)

\* A WebSocket object is created in this step.
NewSocket(s) ==
  /\ s \in DOMAIN sockets'
  /\ sockets'[s].readyState = "CONNECTING"
  /\ (s \in DOMAIN sockets => sockets[s].readyState # "CONNECTING")

\* disconnectWebSockets closes the current socket in this step.
LocalClose(s) ==
  /\ listenWsRef = s /\ listenWsRef' # s
  /\ Live(sockets[s])
  /\ s \in DOMAIN sockets' /\ sockets'[s].readyState = "CLOSING"

\* C11: a call response with monitor.listenUrl starts a listen connection and
\* no poll timer for that call; a response with an id and no monitor starts a
\* poll timer of 3 seconds for GET /call/{id} and no listen connection.
C11_ResponseSelectsTransport ==
  [][\A response \in CallResponses(callsMade) :
       makeCallResponseWith(response) =>
         /\ response.listenUrl # "" =>
              /\ ConnectAttempted'
              /\ response.listenUrl # BadUrl =>
                   /\ listenWsRef' # NoSock
                   /\ sockets'[listenWsRef'].url = response.listenUrl
                   /\ sockets'[listenWsRef'].readyState = "CONNECTING"
              /\ \A i \in DOMAIN intervals' : intervals'[i].callId # response.id
         /\ (response.listenUrl = "" /\ response.controlUrl = "") =>
              /\ pollRef' # NoTimer
              /\ intervals'[pollRef'].callId = response.id
              /\ intervals'[pollRef'].period = PollIntervalMs
              /\ ~ConnectAttempted'
              /\ \A s \in 1..MaxSockets : ~NewSocket(s)]_vars

C11_Witness ==
  /\ currentCall.listenUrl = "wss://a"
  /\ listenWsRef # NoSock
  /\ sockets[listenWsRef].readyState = "CONNECTING" /\ sockets[listenWsRef].gen = 0
  /\ pollRef = NoTimer /\ DOMAIN intervals = {}
  /\ ConnectAttempted

\* C12 as stated: a socket still CONNECTING after 10 seconds is closed, exactly
\* one error entry is logged for the failed attempt (the one of the timeout
\* callback, none when its close is reported), and the reconnect is scheduled
\* with a delay of 1 second.
C12_TimeoutOneErrorEntry ==
  [][\A s \in DOMAIN sockets :
       /\ TimeoutFires(s) =>
            /\ sockets[s].timeoutMs = ConnectTimeoutMs
            /\ sockets'[s].readyState = "CLOSING" /\ ErrorEntries(logged') = 1
       /\ (wsCloseUnexpected(s) /\ TimedOutCurrent(s)) =>
            /\ ErrorEntries(logged') = 0
            /\ sockets'[s].retry /\ sockets'[s].delay = BackoffBaseMs]_vars

\* C12 amended: the timeout callback closes the socket and logs exactly one
\* error entry; when the close of a socket closed before its handshake is
\* reported, ws.onerror logs one more error entry and ws.onclose schedules the
\* reconnect with a delay of 1 second.
C12_TimeoutClosesThenRetries ==
  [][\A s \in DOMAIN sockets :
       /\ TimeoutFires(s) =>
            /\ sockets[s].timeoutMs = ConnectTimeoutMs
            /\ sockets'[s].readyState = "CLOSING" /\ ErrorEntries(logged') = 1
            /\ ~sockets'[s].retry
       /\ (wsCloseUnexpected(s) /\ ClosedWhileConnecting(s)) =>
            /\ ErrorEntries(logged') = 1
            /\ sockets'[s].retry /\ sockets'[s].delay = BackoffBaseMs]_vars

C12_Witness ==
  \E s \in DOMAIN sockets :
    /\ TimedOutCurrent(s) /\ ~sockets[s].timeout
    /\ logged = <<(<<"error", "listen">>)>>

\* C13: a clean close schedules no automatic reconnect; a reconnect is
\* scheduled only in the task of an unexpected close.
C13_RetryOnlyAfterUnexpectedClose ==
  [][\A s \in 1..MaxSockets :
       /\ wsCloseClean(s) => (s \in DOMAIN sockets' => ~sockets'[s].retry)
       /\ (/\ s \in DOMAIN sockets' /\ sockets'[s].retry
           /\ ~(s \in DOMAIN sockets /\ sockets[s].retry))
            => wsCloseUnexpected(s)]_vars

C13_Witness ==
  \E s \in DOMAIN sockets :
    /\ listenWsRef = s
    /\ sockets[s].readyState = "CLOSED" /\ ~sockets[s].retry
    /\ logged = <<(<<"connection", "listen">>)>>

\* C14 as stated: every channel transition, the local close by
\* disconnectWebSockets included, appends an entry of kind connection or error.
C14_EveryTransitionLogged ==
  [][\A s \in 1..MaxSockets :
       (\/ NewSocket(s)
        \/ s \in DOMAIN sockets /\ (\/ wsOnOpen(s) \/ TimeoutFires(s)
                                     \/ wsCloseClean(s) \/ wsCloseUnexpected(s)
                                     \/ LocalClose(s)))
         => HasChannelEntry(logged')]_vars

\* C14 amended: every channel transition other than the local close (start of
\* an attempt, open, timeout, clean close, unexpected close with or without a
\* transport error) appends an entry of kind connection or error.
C14_RemoteTransitionsLogged ==
  [][\A s \in 1..MaxSockets :
       (\/ NewSocket(s)
        \/ s \in DOMAIN sockets /\ (\/ wsOnOpen(s) \/ TimeoutFires(s)
                                     \/ wsCloseClean(s) \/ wsCloseUnexpected(s)))
         => HasChannelEntry(logged')]_vars

C14_Witness ==
  \E s \in DOMAIN sockets :
    /\ sockets[s].readyState = "OPEN" /\ wsConnection.connected
    /\ logged = <<(<<"connection", "listen">>)>>

\* C15: a connection timeout, a transport error or an unexpected close sets
\* the connected flag to false and leaves currentCall as it was.
C15_FailuresKeepSession ==
  [][\A s \in DOMAIN sockets :
       (TimeoutFires(s) \/ wsCloseUnexpected(s))
         => /\ currentCall' = currentCall
            /\ mounted => ~wsConnection'.connected]_vars

C15_Witness ==
  \E s \in DOMAIN sockets :
    /\ mounted /\ currentCall # NoCall /\ ~wsConnection.connected
    /\ sockets[s].readyState = "CLOSED" /\ sockets[s].retry
    /\ ErrorEntries(logged) = 1

\* ------------------------------------------------ claims on the message log
\* The positions of the log that hold the entry of a received frame.
FrameEntries == {i \in 1..Len(wsMessages) : wsMessages[i].rx # 0}

\* C16: the log holds at most 100 entries, and they are the most recently
\* appended ones in arrival order: an append to a full log evicts the oldest
\* entry and no other.
C16_LogHoldsLatest ==
  /\ Len(wsMessages) <= LogCap
  /\ Len(wsMessages) = IF logCount <= LogCap THEN logCount ELSE LogCap
  /\ \A i \in 1..Len(wsMessages) :
        wsMessages[i].timestamp = logCount - Len(wsMessages) + i

C16_Witness ==
  /\ Len(wsMessages) = LogCap
  /\ logCount = LogCap + 2
  /\ wsMessages[1].timestamp = 3
  /\ wsMessages[LogCap].type = "error"

\* C17: the entries of frames received on the listen channel stand in the log
\* in the order in which the frames were received, whatever the mix of text
\* and binary frames.
C17_FramesLoggedInReceiptOrder ==
  \A i, j \in FrameEntries : i < j => wsMessages[i].rx < wsMessages[j].rx

C17_Witness ==
  /\ rxCount >= 3 /\ rxPending = {}
  /\ \E i, j \in FrameEntries :
        /\ wsMessages[i].rx = 1 /\ wsMessages[i].type = "raw"
        /\ wsMessages[j].rx = 2 /\ wsMessages[j].type = "message"

\* --------------------------------------------- claims on the webhook store
\* C18: the store holds at most 200 events, the most recent at index 0 and
\* the rest in reverse push order; a push into a full store evicts exactly
\* the oldest event.
C18_StoreHoldsLatest ==
  /\ Len(store) <= MAX_EVENTS
  /\ Len(store) = Min(MAX_EVENTS, hookCount - hookBase)
  /\ \A i \in 1..Len(store) : store[i].id = hookCount + 1 - i

C18_Witness ==
  /\ Len(store) = MAX_EVENTS
  /\ hookCount = MAX_EVENTS + 1 /\ hookBase = 0
  /\ store[1].id = MAX_EVENTS + 1 /\ store[MAX_EVENTS].id = 2

\* C19: a listing holds at most `limit` events, newest first, each received
\* strictly later than `since` when it is given, for every integer limit the
\* query string can supply and every store content.
C19_ListingWithinLimit ==
  (hookResp.kind = "list" /\ hookResp.status = 200) =>
    LET events == hookResp.events
    IN /\ Len(events) <= (IF hookResp.limit < 0 THEN 0 ELSE hookResp.limit)
       /\ \A i, j \in 1..Len(events) : i < j => events[i].id > events[j].id
       /\ hookResp.since # NoParam =>
            \A i \in 1..Len(events) : events[i].receivedAt > ToIso(hookResp.since)

\* C20: a POST whose signature is missing, wrong or cannot be checked is not
\* rejected: its event is stored with verified false and the response is 200
\* with the id of the stored event.
C20_UnverifiedStored ==
  [][\A body \in Bodies, sig \in SignatureHeaders, dt \in {0, 1} :
       (/\ POST(body, sig, dt)
        /\ (sig = NoHeader \/ hookSecret = NoSecret \/ sig # Hmac(hookSecret, body)))
         => /\ store'[1].id = hookCount + 1
            /\ store'[1].verified = FALSE
            /\ hookResp'.status = 200
            /\ hookResp'.id = store'[1].id]_vars

C20_Witness ==
  /\ hookSecret # NoSecret
  /\ hookResp.kind = "post" /\ hookResp.status = 200
  /\ store # <<>>
  /\ store[1].id = hookResp.id /\ ~store[1].verified
  /\ \E i \in 1..Len(store) : store[i].verified

\* ------------------------------------------------- claims on VapiService
\* C21: every request that has settled was notified by exactly one
\* 'vapiApiCall' event: success true when request() returned data, success
\* false when it threw; a request still in flight has not been notified.
C21_OneEventPerRequest ==
  /\ Len(svcEvents) = Len(svcOutcomes)
  /\ \A k \in 1..Len(svcOutcomes) :
        svcEvents[k].success = (request(svcOutcomes[k]).kind = "data")

C21_Witness ==
  /\ svcPc = "done"
  /\ Len(svcEvents) = 2
  /\ ~svcEvents[1].success /\ svcEvents[2].success
  /\ svcOutcomes[1] = [kind |-> "http", status |-> 200, json |-> FALSE]

\* C22: makeCall sends the PATCH of the assistant first, sends POST /call
\* only once the PATCH has settled, sends it whatever the PATCH did, and
\* settles as the POST settles.
C22_PatchThenPost ==
  /\ svcPc = "patch" =>
       Len(svcSent) = 1 /\ svcSent[1].method = "PATCH" /\ svcOutcomes = <<>>
  /\ svcPc \in {"post", "done"} =>
       /\ Len(svcSent) = 2 /\ svcSent[1].method = "PATCH" /\ svcSent[2] = PostCall
       /\ Len(svcOutcomes) >= 1
  /\ svcPc = "done" =>
       Len(svcOutcomes) = 2 /\ svcResult = request(svcOutcomes[2])

C22_Witness ==
  /\ svcPc = "done"
  /\ request(svcOutcomes[1]).kind = "error"
  /\ svcSent[2] = PostCall
  /\ svcResult.kind = "data"

\* ---------------------------------------------------- claims on the poller
\* C23: a failed poll fetch appends exactly one entry to the log, of kind
\* error and source poll, and leaves the poll timer, pollRef and currentCall
\* as they were: the next tick polls again.
C23_PollFailureKeepsPolling ==
  [][\A p \in BagToSet(polls) :
       pollError(p) =>
         /\ logged' = <<<<"error", "poll">>>>
         /\ intervals' = intervals
         /\ pollRef' = pollRef
         /\ currentCall' = currentCall]_vars

\* A poll failed while its timer runs, and the timer runs on.
C23_Witness ==
  /\ logged = <<<<"error", "poll">>>>
  /\ pollRef # NoTimer
  /\ pollRef \in DOMAIN intervals
  /\ currentCall # NoCall

\* C25: no socket is ever created for a control URL: every socket targets a
\* listen URL; a step that hands a control URL to connectWebSockets logs an
\* info entry for it.
ControlOnly == ControlUrls \ ListenUrls

InfoLogged(log) == \E k \in 1..Len(log) : log[k] = <<"info", "listen">>

C25_ControlUrlNeverOpened ==
  [][/\ \A s \in DOMAIN sockets' :
          sockets'[s].url \in ListenUrls \ {""} /\ sockets'[s].url \notin ControlOnly
     /\ wsConnection'.url \notin ControlOnly
     /\ \A response \in CallResponses(callsMade) :
          (makeCallResponseWith(response) /\ response.listenUrl # "" /\ response.controlUrl # "")
            => InfoLogged(logged')
     /\ \A p \in BagToSet(polls) : \A updated \in CallResponses(p.callId) :
          (pollResponseWith(p, updated) /\ updated.controlUrl # "")
            => InfoLogged(logged')]_vars

\* A response with both URLs was handled: the socket targets the listen URL
\* and the control URL is in the log as an info entry.
C25_Witness ==
  /\ currentCall.controlUrl # "" /\ currentCall.listenUrl \notin {"", BadUrl}
  /\ InfoLogged(logged)
  /\ listenWsRef # NoSock
  /\ sockets[listenWsRef].url = currentCall.listenUrl

\* C26: when no socket has an event left to deliver, the connected flag is
\* true exactly when the socket in listenWsRef is open.
EventsPending ==
  \E s \in DOMAIN sockets : sockets[s].readyState \in {"CONNECTING", "CLOSING"}

CurrentOpen == listenWsRef # NoSock /\ sockets[listenWsRef].readyState = "OPEN"

C26_ConnectedAgreesWithSocket ==
  (mounted /\ ~EventsPending) => (wsConnection.connected <=> CurrentOpen)

\* C27: the response of a poll whose timer has been cleared since it was
\* sent changes neither currentCall nor the channel nor the timer of a later
\* poller.
PollerStopped(p) == \A i \in DOMAIN intervals : intervals[i] # p

C27_StoppedPollerResponseIgnored ==
  [][\A p \in BagToSet(polls) :
       (pollResponse(p) /\ PollerStopped(p)) =>
         /\ currentCall' = currentCall
         /\ sockets' = sockets /\ listenWsRef' = listenWsRef
         /\ intervals' = intervals /\ pollRef' = pollRef]_vars

\* C30: at most one interval created by startPollingCall runs; pollRef is
\* null exactly when none runs and otherwise holds the id of the one that
\* does.
C30_OnePollTimer ==
  /\ Cardinality(DOMAIN intervals) <= 1
  /\ (pollRef = NoTimer) <=> (DOMAIN intervals = {})
  /\ pollRef # NoTimer => DOMAIN intervals = {pollRef}

\* A second call replaced the poller of the first.
C30_Witness ==
  /\ callsMade = 2
  /\ pollRef # NoTimer
  /\ intervals[pollRef].callId = 2

\* ------------------------------------------------ claims on normalizeWsData
Normalized == abResult # NoNormalized

SampleLength == Min(SampleBytes, byteLength(abData))

SamplePrintable == CountPrintable(abData, SampleLength)

\* C24 as stated: an ArrayBuffer is decoded as text (isBinary unset) exactly
\* when at least 60% of its first min(512, length) bytes are printable ASCII
\* or tab, LF, CR; below that, and for the empty buffer, it is binary.
C24_AtLeastSixtyPercentIsText ==
  Normalized =>
    (abResult.text /\ ~abResult.isBinary)
      <=> (SampleLength > 0 /\ 5 * SamplePrintable >= 3 * SampleLength)

\* C24 amended: decoded as text exactly when more than 60% of the first
\* min(512, length) bytes are printable; at 60% or below, and for the empty
\* buffer, it is binary.
C24_AboveSixtyPercentIsText ==
  Normalized =>
    /\ (abResult.text /\ ~abResult.isBinary)
         <=> (SampleLength > 0 /\ 5 * SamplePrintable > 3 * SampleLength)
    /\ abResult.isBinary <=> ~abResult.text

\* A buffer longer than the sample, printable above 60% in its first 512
\* bytes and below 60% overall, was decoded as text.
C24_Witness ==
  /\ Normalized /\ abResult.text
  /\ byteLength(abData) > SampleBytes
  /\ 5 * CountPrintable(abData, byteLength(abData)) < 3 * byteLength(abData)

\* ---------------------------------------------- claims on the gateway edit
\* C28: when updateGatewayIp has ended on a credential the platform held,
\* the platform holds the original credential or a credential of the same
\* name with the new IP.
C28_CredentialNeverLost ==
  (gwPc = "done" /\ gwEdit # NoEdit /\ gwEdit.held) =>
    \E c \in platform :
      c.name = gwEdit.name /\ (c = gwEdit.original \/ c.ip = gwEdit.ip)

\* --------------------------------------- claims on validateE164PhoneNumber
\* '+' first, then digits only.
PlusThenDigits(str) ==
  /\ StartsWith(str, "+")
  /\ \A i \in 2..Len(str) : str[i] \in Digits

\* C29: for every input the result is one leading '+' followed only by
\* digits, and formatting the result again returns it unchanged.
C29_PlusThenDigitsIdempotent ==
  /\ \A k \in 1..Len(formatted) : PlusThenDigits(formatted[k])
  /\ Len(formatted) = 2 => formatted[2] = formatted[1]

====
